---- MODULE Spec2Model ----
(***************************************************************************)
(* Knight's Tour solver: Board (src/src/Board.cpp) and Solver             *)
(* (src/src/Solver.cpp) as a state machine.  The recursion of              *)
(* Solver::backtrack is an explicit stack of frames; every step of the     *)
(* search (entry and terminal check, loop head, dead-end look-ahead,       *)
(* placing a move, returning) is one action.                               *)
(***************************************************************************)
EXTENDS Integers, Sequences, FiniteSets, TLC

VARIABLES
    W, H,             \* Board::width_, Board::height_
    board,            \* Board::board_, as a function from <<row, col>> to the move number
    path,             \* Solver::path_
    backtrackCount,   \* Solver::backtrackCount_
    startRow,         \* Solver::startRow_
    startCol,         \* Solver::startCol_
    tourType,         \* Solver::tourType_
    stack,            \* the activations of Solver::backtrack, innermost last
    pc,               \* where the program is: "idle" between calls, else inside solve
    ret,              \* the value the innermost finished backtrack() returned
    error,            \* TRUE once a Board accessor has thrown std::out_of_range
    lastOp,           \* the last public call that returned
    lastRet,          \* what it returned
    calls,            \* number of solve calls made so far
    cur,              \* the outcome of the last solve on a valid start, once it has returned
    prev,             \* the outcome of the solve on a valid start before that one
    sinceReset,       \* TRUE when the last solve on a valid start was called directly after reset()
    pre,              \* the solver state at the last solve call with an invalid start
    tpc,              \* testAllPositions: where it is ("off" when it does not run)
    tRow, tCol,       \* testAllPositions: the loop variables row, col
    successCount,     \* testAllPositions: successCount
    totalBacktracks,  \* testAllPositions: totalBacktracks
    avgBacktracks,    \* testAllPositions: the printed totalBacktracks / successCount
    call,             \* the last Board constructor or member call a client made, with its outcome
    placed,           \* number of moves backtrack has made (lines 63-64) in the last solve on a valid start
    probed            \* board, path and backtrack count as they were when the running createsDeadEnd was called

vars == <<W, H, board, path, backtrackCount, startRow, startCol, tourType, stack,
          pc, ret, error, lastOp, lastRet, calls, cur, prev, sinceReset, pre,
          tpc, tRow, tCol, successCount, totalBacktracks, avgBacktracks, call,
          placed, probed>>

solverVars == <<board, path, backtrackCount, startRow, startCol, tourType>>

ghostVars == <<cur, prev, sinceReset, pre>>

testVars == <<tpc, tRow, tCol, successCount, totalBacktracks, avgBacktracks>>

----------------------------------------------------------------------------
(* Bounds of the model *)

\* Longest side of a board of the small-board specification
MaxSide == 4

\* Most squares of a board of the small-board specification
MaxCells == 12

\* Most solve calls in one behaviour of the small-board specification
MaxCalls == 2

----------------------------------------------------------------------------
(* Board *)

OPEN == "OPEN"

CLOSED == "CLOSED"

TourTypes == {OPEN, CLOSED}

Abs(x) == IF x < 0 THEN -x ELSE x

\* Board::KNIGHT_MOVES, in declaration order
KNIGHT_MOVES ==
    << <<-2, -1>>, <<-2, 1>>, <<-1, -2>>, <<-1, 2>>,
       <<1, -2>>, <<1, 2>>, <<2, -1>>, <<2, 1>> >>

\* The largest dimension Board::Board accepts
MAX_DIM == 1000

\* Board::size
size(w, h) == w * h

\* The squares of a w x h board
Cells(w, h) == (0 .. h - 1) \X (0 .. w - 1)

\* Board::isValid
isValid(w, h, row, col) == row >= 0 /\ row < h /\ col >= 0 /\ col < w

\* Board::toIndex with a row one cell too short
toIndexShortRow(w, row, col) == row * (w - 1) + col

\* Board::toIndex
toIndex(w, row, col) == row * w + col

\* Board::Board: width * height cells, all 0
newBoard(w, h) == [p \in Cells(w, h) |-> 0]

\* Board::clear with an off-by-one fill: the last cell keeps its value
clearButLast(b, w, h) ==
    [p \in DOMAIN b |-> IF p = <<h - 1, w - 1>> THEN b[p] ELSE 0]

\* Board::clear
clear(b, w, h) == [p \in DOMAIN b |-> 0]

\* Board::at on an in-bounds square (out of bounds it throws, see atThrows)
at(b, row, col) == b[<<row, col>>]

\* Board::at, Board::set and Board::isVisited throw std::out_of_range here
atThrows(w, h, row, col) == ~isValid(w, h, row, col)

\* Board::set: the board after set(row, col, moveNumber); unchanged when it throws
set(b, w, h, row, col, moveNumber) ==
    IF isValid(w, h, row, col)
    THEN [b EXCEPT ![<<row, col>>] = moveNumber]
    ELSE b

\* Board::isVisited on an in-bounds square
isVisited(b, row, col) == at(b, row, col) # 0

\* Board::getValidMoves without the test of isVisited
getValidMovesAll(b, w, h, row, col, onlyUnvisited) ==
    LET dest == [i \in 1 .. 8 |-> <<row + KNIGHT_MOVES[i][1], col + KNIGHT_MOVES[i][2]>>]
        keep(p) == isValid(w, h, p[1], p[2])
    IN  SelectSeq(dest, keep)

\* Board::getValidMoves: the in-bounds destinations in KNIGHT_MOVES order
getValidMoves(b, w, h, row, col, onlyUnvisited) ==
    LET dest == [i \in 1 .. 8 |-> <<row + KNIGHT_MOVES[i][1], col + KNIGHT_MOVES[i][2]>>]
        keep(p) == /\ isValid(w, h, p[1], p[2])
                   /\ (~onlyUnvisited \/ ~isVisited(b, p[1], p[2]))
    IN  SelectSeq(dest, keep)

----------------------------------------------------------------------------
(* Solver: the pure parts *)

\* Solver::countAvailableMoves
countAvailableMoves(b, w, h, row, col) == Len(getValidMoves(b, w, h, row, col, TRUE))

\* Solver::calculateDegree
calculateDegree(b, w, h, move) == countAvailableMoves(b, w, h, move[1], move[2])

\* The lambda distanceFromCenter of Solver::sortMoves
distanceFromCenter(w, h, move) ==
    Abs(move[1] - (h \div 2)) + Abs(move[2] - (w \div 2))

\* The comparator of Solver::sortMoves breaking a tie in favour of the move
\* nearer to the centre
sortLessNearFirst(b, w, h, m1, m2) ==
    LET degreeA == calculateDegree(b, w, h, m1)
        degreeB == calculateDegree(b, w, h, m2)
    IN  IF degreeA # degreeB
        THEN degreeA < degreeB
        ELSE distanceFromCenter(w, h, m1) < distanceFromCenter(w, h, m2)

\* The comparator of Solver::sortMoves: TRUE when a is ordered before b
sortLess(b, w, h, m1, m2) ==
    LET degreeA == calculateDegree(b, w, h, m1)
        degreeB == calculateDegree(b, w, h, m2)
    IN  IF degreeA # degreeB
        THEN degreeA < degreeB
        ELSE distanceFromCenter(w, h, m1) > distanceFromCenter(w, h, m2)

\* std::sort on fewer than 16 elements is a straight insertion sort: an element
\* moves left past every element it compares less than, and past no other
RECURSIVE linearInsert(_, _, _, _, _)
linearInsert(b, w, h, sorted, val) ==
    IF sorted = <<>>
    THEN <<val>>
    ELSE IF sortLess(b, w, h, val, sorted[Len(sorted)])
         THEN Append(linearInsert(b, w, h, SubSeq(sorted, 1, Len(sorted) - 1), val),
                     sorted[Len(sorted)])
         ELSE Append(sorted, val)

RECURSIVE insertionSort(_, _, _, _, _)
insertionSort(b, w, h, moves, n) ==
    IF n = 0
    THEN <<>>
    ELSE linearInsert(b, w, h, insertionSort(b, w, h, moves, n - 1), moves[n])

\* Solver::sortMoves
sortMoves(b, w, h, moves) == insertionSort(b, w, h, moves, Len(moves))

\* Solver::isSolution without the closing test of a CLOSED tour
isSolutionNoClosure(b, w, h, p, tt, sRow, sCol, moveNumber) ==
    moveNumber = size(w, h) + 1

\* Solver::isSolution comparing with size() instead of size() + 1
isSolutionOffByOne(b, w, h, p, tt, sRow, sCol, moveNumber) ==
    IF moveNumber # size(w, h)
    THEN FALSE
    ELSE IF tt = OPEN
         THEN TRUE
         ELSE LET lastMove == p[Len(p)]
                  validMoves == getValidMoves(b, w, h, lastMove[1], lastMove[2], FALSE)
              IN  \E i \in 1 .. Len(validMoves) : validMoves[i] = <<sRow, sCol>>

\* Solver::isSolution
isSolution(b, w, h, p, tt, sRow, sCol, moveNumber) ==
    IF moveNumber # size(w, h) + 1
    THEN FALSE
    ELSE IF tt = OPEN
         THEN TRUE
         ELSE LET lastMove == p[Len(p)]
                  validMoves == getValidMoves(b, w, h, lastMove[1], lastMove[2], FALSE)
              IN  \E i \in 1 .. Len(validMoves) : validMoves[i] = <<sRow, sCol>>

\* Solver::createsDeadEnd calling a neighbour with one onward move a dead end too
hasDeadEndTight(b, w, h, move) ==
    LET neighbors == getValidMoves(b, w, h, move[1], move[2], TRUE)
    IN  \E i \in 1 .. Len(neighbors) :
            countAvailableMoves(b, w, h, neighbors[i][1], neighbors[i][2]) <= 1

\* Solver::createsDeadEnd, the check made while the move is on the board:
\* some unvisited neighbour of the move has no unvisited neighbour left
hasDeadEnd(b, w, h, move) ==
    LET neighbors == getValidMoves(b, w, h, move[1], move[2], TRUE)
    IN  \E i \in 1 .. Len(neighbors) :
            countAvailableMoves(b, w, h, neighbors[i][1], neighbors[i][2]) = 0

\* A legal knight step, as Solver::validatePath tests it
isValidKnightMove(p, q) ==
    LET rowDiff == Abs(q[1] - p[1])
        colDiff == Abs(q[2] - p[2])
    IN  (rowDiff = 2 /\ colDiff = 1) \/ (rowDiff = 1 /\ colDiff = 2)

\* Solver::validatePath, first loop: FALSE at the first position that is out of
\* bounds or whose index is already marked in the visited bitmap
RECURSIVE uniqueInBounds(_, _, _, _, _)
uniqueInBounds(w, h, p, i, visited) ==
    IF i > Len(p)
    THEN TRUE
    ELSE IF ~isValid(w, h, p[i][1], p[i][2])
         THEN FALSE
         ELSE LET idx == toIndex(w, p[i][1], p[i][2])
              IN  IF idx \in visited
                  THEN FALSE
                  ELSE uniqueInBounds(w, h, p, i + 1, visited \cup {idx})

\* Solver::validatePath
validatePath(w, h, p, tt) ==
    IF p = <<>>
    THEN FALSE
    ELSE IF Len(p) # size(w, h)
    THEN FALSE
    ELSE IF ~uniqueInBounds(w, h, p, 1, {})
    THEN FALSE
    ELSE IF \E i \in 2 .. Len(p) : ~isValidKnightMove(p[i - 1], p[i])
    THEN FALSE
    ELSE IF tt = CLOSED /\ Len(p) > 1 /\ ~isValidKnightMove(p[Len(p)], p[1])
    THEN FALSE
    ELSE TRUE

\* PathStatistics as Solver::getPathStatistics initialises it; the average
\* distance, a double in the code, is kept as <<sum of the distances, divisor>>
noStatistics ==
    [totalMoves |-> 0, cornerVisits |-> 0, edgeVisits |-> 0, centerVisits |-> 0,
     averageDistanceFromCenter |-> <<0, 1>>]

\* Solver::getPathStatistics, its loop from path_[i] on
RECURSIVE statisticsFrom(_, _, _, _, _, _)
statisticsFrom(w, h, p, i, stats, totalDistance) ==
    IF i > Len(p)
    THEN [stats EXCEPT !.averageDistanceFromCenter = <<totalDistance, Len(p)>>]
    ELSE LET move == p[i]
             maxRow == h - 1
             maxCol == w - 1
             isCorner == \/ (move[1] = 0 /\ move[2] = 0)
                         \/ (move[1] = 0 /\ move[2] = maxCol)
                         \/ (move[1] = maxRow /\ move[2] = 0)
                         \/ (move[1] = maxRow /\ move[2] = maxCol)
             isEdge == ~isCorner /\ (move[1] = 0 \/ move[1] = maxRow
                                        \/ move[2] = 0 \/ move[2] = maxCol)
             counted == IF isCorner
                        THEN [stats EXCEPT !.cornerVisits = @ + 1]
                        ELSE IF isEdge
                        THEN [stats EXCEPT !.edgeVisits = @ + 1]
                        ELSE [stats EXCEPT !.centerVisits = @ + 1]
         IN  statisticsFrom(w, h, p, i + 1, counted,
                            totalDistance + distanceFromCenter(w, h, move))

\* Solver::getPathStatistics testing for an edge before it tests for a corner
getPathStatisticsEdgeFirst(w, h, p) ==
    LET onEdge(move) == move[1] = 0 \/ move[1] = h - 1 \/ move[2] = 0 \/ move[2] = w - 1
        edges == Cardinality({i \in 1 .. Len(p) : onEdge(p[i])})
    IN  [totalMoves |-> Len(p), cornerVisits |-> 0, edgeVisits |-> edges,
         centerVisits |-> Len(p) - edges, averageDistanceFromCenter |-> <<0, 1>>]

\* Solver::getPathStatistics
getPathStatistics(w, h, p) ==
    IF p = <<>>
    THEN noStatistics
    ELSE statisticsFrom(w, h, p, 1, [noStatistics EXCEPT !.totalMoves = Len(p)], 0)

----------------------------------------------------------------------------
(* Solver: solve as a function of the board it is called on and its arguments *)

\* Solver::createsDeadEnd
createsDeadEnd(b, w, h, move, moveNumber) ==
    hasDeadEnd(set(b, w, h, move[1], move[2], moveNumber), w, h, move)

\* Solver::backtrack on the solver state s = [board, path, backtrackCount] of
\* the call c = [w, h, row, col, type], and tryMoves, its loop from
\* validMoves[i] on: the value returned and the state left
RECURSIVE backtrack(_, _, _, _, _)
RECURSIVE tryMoves(_, _, _, _, _)

backtrack(c, s, row, col, moveNumber) ==
    IF isSolution(s.board, c.w, c.h, s.path, c.type, c.row, c.col, moveNumber)
    THEN [result |-> TRUE, s |-> s]
    ELSE tryMoves(c, s,
                  sortMoves(s.board, c.w, c.h,
                            getValidMoves(s.board, c.w, c.h, row, col, TRUE)),
                  1, moveNumber)

tryMoves(c, s, validMoves, i, moveNumber) ==
    IF i > Len(validMoves)
    THEN [result |-> FALSE, s |-> s]
    ELSE LET move == validMoves[i]
         IN  IF Len(validMoves) > 1 /\ createsDeadEnd(s.board, c.w, c.h, move, moveNumber)
             THEN tryMoves(c, s, validMoves, i + 1, moveNumber)
             ELSE LET made == [s EXCEPT
                                 !.board = set(@, c.w, c.h, move[1], move[2], moveNumber),
                                 !.path = Append(@, move)]
                      r == backtrack(c, made, move[1], move[2], moveNumber + 1)
                  IN  IF r.result
                      THEN r
                      ELSE tryMoves(c,
                                    [r.s EXCEPT
                                       !.board = set(@, c.w, c.h, move[1], move[2], 0),
                                       !.path = SubSeq(@, 1, Len(@) - 1),
                                       !.backtrackCount = @ + 1],
                                    validMoves, i + 1, moveNumber)

\* Solver::solve(row, col, type) on a valid start, called when the w x h board
\* holds b
solve(b, w, h, row, col, type) ==
    backtrack([w |-> w, h |-> h, row |-> row, col |-> col, type |-> type],
              [board |-> set(clear(b, w, h), w, h, row, col, 1),
               path |-> <<<<row, col>>>>,
               backtrackCount |-> 0],
              row, col, 2)

----------------------------------------------------------------------------
(* Solver: the state machine *)

Null == [none |-> TRUE]

\* An activation of Solver::backtrack(row, col, moveNumber) that has just been called
Frame(row, col, moveNumber) ==
    [row |-> row, col |-> col, moveNumber |-> moveNumber, validMoves |-> <<>>, i |-> 0]

Top == stack[Len(stack)]

Pop == SubSeq(stack, 1, Len(stack) - 1)

\* The innermost activation with its loop moved to the next candidate
NextCandidate == [stack EXCEPT ![Len(stack)].i = @ + 1]

\* What the public getters report, with the arguments of the solve that produced it
Outcome(result) ==
    [row |-> startRow, col |-> startCol, type |-> tourType, result |-> result,
     path |-> path, backtrackCount |-> backtrackCount, board |-> board]

\* The solver's fields, as a snapshot
Snapshot ==
    [board |-> board, path |-> path, backtrackCount |-> backtrackCount,
     startRow |-> startRow, startCol |-> startCol, tourType |-> tourType]

\* Board::Board followed by Solver::Solver
Constructed(w, h) ==
    /\ W = w
    /\ H = h
    /\ board = newBoard(w, h)
    /\ path = <<>>
    /\ backtrackCount = 0
    /\ startRow = 0
    /\ startCol = 0
    /\ tourType = OPEN
    /\ stack = <<>>
    /\ pc = "idle"
    /\ ret = FALSE
    /\ error = FALSE
    /\ lastOp = "none"
    /\ lastRet = FALSE
    /\ calls = 0
    /\ cur = Null
    /\ prev = Null
    /\ sinceReset = FALSE
    /\ pre = Null
    /\ call = Null
    /\ placed = 0
    /\ probed = Null

\* A Board accessor threw std::out_of_range: nothing catches it inside the
\* solver, so every activation is left and the call ends without a result
Throws ==
    /\ error' = TRUE
    /\ stack' = <<>>
    /\ pc' = "idle"
    /\ lastOp' = "threw"
    /\ lastRet' = FALSE
    /\ UNCHANGED ret

\* Solver::solve without the reset of the backtrack count
solveValidKeepsCount(b, row, col, type) ==
    /\ path' = IF atThrows(W, H, row, col) THEN <<>> ELSE <<<<row, col>>>>
    /\ UNCHANGED backtrackCount
    /\ placed' = 0
    /\ startRow' = row
    /\ startCol' = col
    /\ tourType' = type
    /\ board' = set(clear(b, W, H), W, H, row, col, 1)
    /\ IF atThrows(W, H, row, col)
       THEN Throws
       ELSE /\ stack' = <<Frame(row, col, 2)>>
            /\ pc' = "enter"
            /\ lastOp' = "solving"
            /\ lastRet' = FALSE
            /\ UNCHANGED <<ret, error>>

\* Solver::solve, lines 26-39: the reset of the state, the first square, and
\* the call backtrack(startRow, startCol, 2)
solveValid(b, row, col, type) ==
    /\ path' = IF atThrows(W, H, row, col) THEN <<>> ELSE <<<<row, col>>>>
    /\ backtrackCount' = 0
    /\ placed' = 0
    /\ startRow' = row
    /\ startCol' = col
    /\ tourType' = type
    /\ board' = set(clear(b, W, H), W, H, row, col, 1)
    /\ IF atThrows(W, H, row, col)
       THEN Throws
       ELSE /\ stack' = <<Frame(row, col, 2)>>
            /\ pc' = "enter"
            /\ lastOp' = "solving"
            /\ lastRet' = FALSE
            /\ UNCHANGED <<ret, error>>

\* Solver::solve, lines 22-24: an out-of-bounds start returns false
solveInvalid ==
    /\ lastOp' = "solve"
    /\ lastRet' = FALSE
    /\ UNCHANGED <<solverVars, stack, pc, ret, error, placed>>

\* Solver::solve resetting its state before it validates the start
solveBeginResetsFirst(row, col, type) ==
    IF ~isValid(W, H, row, col)
    THEN /\ board' = clear(board, W, H)
         /\ path' = <<>>
         /\ backtrackCount' = 0
         /\ lastOp' = "solve"
         /\ lastRet' = FALSE
         /\ UNCHANGED <<startRow, startCol, tourType, stack, pc, ret, error, placed>>
    ELSE solveValid(board, row, col, type)

\* Solver::solve without the validation of the start
solveBeginUnchecked(row, col, type) == solveValid(board, row, col, type)

\* Solver::solve, up to its call of backtrack
solveBegin(row, col, type) ==
    IF ~isValid(W, H, row, col)
    THEN solveInvalid
    ELSE solveValid(board, row, col, type)

\* Solver::solve called by a client; at most `limit` searches in a behaviour
Solve(row, col, type, limit) ==
    /\ pc = "idle"
    /\ tpc = "off"
    /\ isValid(W, H, row, col) => calls < limit
    /\ solveBegin(row, col, type)
    /\ calls' = IF isValid(W, H, row, col) THEN calls + 1 ELSE calls
    /\ IF isValid(W, H, row, col)
       THEN /\ prev' = cur
            /\ cur' = Null
            /\ sinceReset' = (lastOp = "reset")
            /\ pre' = Null
       ELSE /\ pre' = Snapshot
            /\ UNCHANGED <<cur, prev, sinceReset>>
    /\ UNCHANGED <<W, H, testVars>>
    /\ UNCHANGED call
    /\ UNCHANGED probed

\* Solver::backtrack marking the move with the number after the one it was given
makeMoveOffByOne(b, move, moveNumber) ==
    IF atThrows(W, H, move[1], move[2])
    THEN /\ Throws
         /\ board' = b
         /\ UNCHANGED <<path, placed>>
    ELSE /\ board' = set(b, W, H, move[1], move[2], moveNumber + 1)
         /\ path' = Append(path, move)
         /\ placed' = placed + 1
         /\ stack' = Append(stack, Frame(move[1], move[2], moveNumber + 1))
         /\ pc' = "enter"
         /\ UNCHANGED <<ret, error, lastOp, lastRet>>

\* Solver::backtrack, lines 62-67: make the move and call backtrack for it
makeMove(b, move, moveNumber) ==
    IF atThrows(W, H, move[1], move[2])
    THEN /\ Throws
         /\ board' = b
         /\ UNCHANGED <<path, placed>>
    ELSE /\ board' = set(b, W, H, move[1], move[2], moveNumber)
         /\ path' = Append(path, move)
         /\ placed' = placed + 1
         /\ stack' = Append(stack, Frame(move[1], move[2], moveNumber + 1))
         /\ pc' = "enter"
         /\ UNCHANGED <<ret, error, lastOp, lastRet>>

\* Solver::backtrack, entry: the terminal check, else the sorted candidates
Enter ==
    /\ pc = "enter"
    /\ IF isSolution(board, W, H, path, tourType, startRow, startCol, Top.moveNumber)
       THEN /\ stack' = Pop
            /\ ret' = TRUE
            /\ pc' = "return"
       ELSE /\ stack' = [stack EXCEPT ![Len(stack)] =
                            [@ EXCEPT !.validMoves =
                                    sortMoves(board, W, H,
                                        getValidMoves(board, W, H, Top.row, Top.col, TRUE)),
                                      !.i = 1]]
            /\ pc' = "loop"
            /\ UNCHANGED ret
    /\ UNCHANGED <<W, H, solverVars, error, lastOp, lastRet, calls, ghostVars, testVars>>
    /\ UNCHANGED call
    /\ UNCHANGED <<placed, probed>>

\* Solver::backtrack running the look-ahead of createsDeadEnd on a single
\* candidate too
IterateAlwaysProbes ==
    /\ pc = "loop"
    /\ IF Top.i > Len(Top.validMoves)
       THEN /\ stack' = Pop
            /\ ret' = FALSE
            /\ pc' = "return"
            /\ UNCHANGED <<board, path, error, lastOp, lastRet, placed, probed>>
       ELSE LET move == Top.validMoves[Top.i]
            IN  /\ probed' = [board |-> board, path |-> path,
                              backtrackCount |-> backtrackCount]
                /\ board' = set(board, W, H, move[1], move[2], Top.moveNumber)
                /\ pc' = "probe"
                /\ UNCHANGED <<path, stack, ret, error, lastOp, lastRet, placed>>
    /\ UNCHANGED <<W, H, backtrackCount, startRow, startCol, tourType,
                   calls, ghostVars, testVars>>
    /\ UNCHANGED call

\* Solver::backtrack, the head of the loop over the candidates: return false
\* when none is left; with several candidates start the look-ahead of
\* createsDeadEnd by placing the candidate; a single candidate is made at once
Iterate ==
    /\ pc = "loop"
    /\ IF Top.i > Len(Top.validMoves)
       THEN /\ stack' = Pop
            /\ ret' = FALSE
            /\ pc' = "return"
            /\ UNCHANGED <<board, path, error, lastOp, lastRet, placed, probed>>
       ELSE LET move == Top.validMoves[Top.i]
            IN  IF Len(Top.validMoves) > 1
                THEN IF atThrows(W, H, move[1], move[2])
                     THEN /\ Throws
                          /\ UNCHANGED <<board, path, placed, probed>>
                     ELSE /\ probed' = [board |-> board, path |-> path,
                                        backtrackCount |-> backtrackCount]
                          /\ board' = set(board, W, H, move[1], move[2], Top.moveNumber)
                          /\ pc' = "probe"
                          /\ UNCHANGED <<path, stack, ret, error, lastOp, lastRet, placed>>
                ELSE /\ makeMove(board, move, Top.moveNumber)
                     /\ UNCHANGED probed
    /\ UNCHANGED <<W, H, backtrackCount, startRow, startCol, tourType,
                   calls, ghostVars, testVars>>
    /\ UNCHANGED call

\* Solver::createsDeadEnd leaving its tentative move on the board when it
\* reports a dead end
CheckDeadEndNoUndo ==
    /\ pc = "probe"
    /\ LET move == Top.validMoves[Top.i]
           dead == hasDeadEnd(board, W, H, move)
           undone == set(board, W, H, move[1], move[2], 0)
       IN  IF dead
           THEN /\ stack' = NextCandidate
                /\ pc' = "loop"
                /\ UNCHANGED <<board, path, ret, error, lastOp, lastRet, placed>>
           ELSE makeMove(undone, move, Top.moveNumber)
    /\ probed' = Null
    /\ UNCHANGED <<W, H, backtrackCount, startRow, startCol, tourType,
                   calls, ghostVars, testVars>>
    /\ UNCHANGED call

\* Solver::backtrack counting a candidate skipped for its dead end as a backtrack
CheckDeadEndCountsPrune ==
    /\ pc = "probe"
    /\ LET move == Top.validMoves[Top.i]
           dead == hasDeadEnd(board, W, H, move)
           undone == set(board, W, H, move[1], move[2], 0)
       IN  IF dead
           THEN /\ board' = undone
                /\ stack' = NextCandidate
                /\ pc' = "loop"
                /\ backtrackCount' = backtrackCount + 1
                /\ UNCHANGED <<path, ret, error, lastOp, lastRet, placed>>
           ELSE /\ makeMove(undone, move, Top.moveNumber)
                /\ UNCHANGED backtrackCount
    /\ probed' = Null
    /\ UNCHANGED <<W, H, startRow, startCol, tourType, calls, ghostVars, testVars>>
    /\ UNCHANGED call

\* Solver::backtrack looking at a skipped candidate again instead of going on
\* with the next one
CheckDeadEndSameCandidate ==
    /\ pc = "probe"
    /\ LET move == Top.validMoves[Top.i]
           dead == hasDeadEnd(board, W, H, move)
           undone == set(board, W, H, move[1], move[2], 0)
       IN  IF dead
           THEN /\ board' = undone
                /\ pc' = "loop"
                /\ UNCHANGED <<path, stack, ret, error, lastOp, lastRet, placed>>
           ELSE makeMove(undone, move, Top.moveNumber)
    /\ probed' = Null
    /\ UNCHANGED <<W, H, backtrackCount, startRow, startCol, tourType,
                   calls, ghostVars, testVars>>
    /\ UNCHANGED call

\* Solver::createsDeadEnd after its tentative move: look at the neighbours,
\* take the move back; the caller skips a dead end and makes any other move
CheckDeadEnd ==
    /\ pc = "probe"
    /\ LET move == Top.validMoves[Top.i]
           dead == hasDeadEnd(board, W, H, move)
           undone == set(board, W, H, move[1], move[2], 0)
       IN  IF dead
           THEN /\ board' = undone
                /\ stack' = NextCandidate
                /\ pc' = "loop"
                /\ UNCHANGED <<path, ret, error, lastOp, lastRet, placed>>
           ELSE makeMove(undone, move, Top.moveNumber)
    /\ probed' = Null
    /\ UNCHANGED <<W, H, backtrackCount, startRow, startCol, tourType,
                   calls, ghostVars, testVars>>
    /\ UNCHANGED call

\* Solver::backtrack counting a backtrack before it looks at the result of the
\* recursive call
ReturnCountsAll ==
    /\ pc = "return"
    /\ stack # <<>>
    /\ backtrackCount' = backtrackCount + 1
    /\ IF ret
       THEN /\ stack' = Pop
            /\ UNCHANGED <<board, path, pc, ret, error, lastOp, lastRet>>
       ELSE LET move == Top.validMoves[Top.i]
            IN  /\ board' = set(board, W, H, move[1], move[2], 0)
                /\ path' = SubSeq(path, 1, Len(path) - 1)
                /\ stack' = NextCandidate
                /\ pc' = "loop"
                /\ UNCHANGED <<ret, error, lastOp, lastRet>>
    /\ UNCHANGED <<W, H, startRow, startCol, tourType, calls, ghostVars, testVars>>
    /\ UNCHANGED call
    /\ UNCHANGED <<placed, probed>>

\* Solver::backtrack taking the move off the board but not off the path
ReturnKeepsPath ==
    /\ pc = "return"
    /\ stack # <<>>
    /\ IF ret
       THEN /\ stack' = Pop
            /\ UNCHANGED <<board, path, backtrackCount, pc, ret, error, lastOp, lastRet>>
       ELSE LET move == Top.validMoves[Top.i]
            IN  /\ board' = set(board, W, H, move[1], move[2], 0)
                /\ backtrackCount' = backtrackCount + 1
                /\ stack' = NextCandidate
                /\ pc' = "loop"
                /\ UNCHANGED <<path, ret, error, lastOp, lastRet>>
    /\ UNCHANGED <<W, H, startRow, startCol, tourType, calls, ghostVars, testVars>>
    /\ UNCHANGED call
    /\ UNCHANGED <<placed, probed>>

\* Solver::backtrack, after the recursive call returned: pass success on, or
\* undo the move, count the backtrack and go on with the next candidate
Return ==
    /\ pc = "return"
    /\ stack # <<>>
    /\ IF ret
       THEN /\ stack' = Pop
            /\ UNCHANGED <<board, path, backtrackCount, pc, ret, error, lastOp, lastRet>>
       ELSE LET move == Top.validMoves[Top.i]
            IN  IF atThrows(W, H, move[1], move[2])
                THEN /\ Throws
                     /\ UNCHANGED <<board, path, backtrackCount>>
                ELSE /\ board' = set(board, W, H, move[1], move[2], 0)
                     /\ path' = SubSeq(path, 1, Len(path) - 1)
                     /\ backtrackCount' = backtrackCount + 1
                     /\ stack' = NextCandidate
                     /\ pc' = "loop"
                     /\ UNCHANGED <<ret, error, lastOp, lastRet>>
    /\ UNCHANGED <<W, H, startRow, startCol, tourType, calls, ghostVars, testVars>>
    /\ UNCHANGED call
    /\ UNCHANGED <<placed, probed>>

\* Solver::solve returns what the outermost backtrack returned
Finish ==
    /\ pc = "return"
    /\ stack = <<>>
    /\ pc' = "idle"
    /\ lastOp' = "solve"
    /\ lastRet' = ret
    /\ cur' = IF tpc = "off" THEN Outcome(ret) ELSE cur
    /\ UNCHANGED <<W, H, solverVars, stack, ret, error, calls, prev, sinceReset, pre,
                   testVars>>
    /\ UNCHANGED call
    /\ UNCHANGED <<placed, probed>>

\* Solver::reset leaving the path as it is
ResetKeepsPath ==
    /\ pc = "idle"
    /\ tpc = "off"
    /\ board' = clear(board, W, H)
    /\ backtrackCount' = 0
    /\ lastOp' = "reset"
    /\ lastRet' = FALSE
    /\ pre' = Null
    /\ UNCHANGED <<W, H, path, startRow, startCol, tourType, stack, pc, ret, error,
                   calls, cur, prev, sinceReset, testVars, call, placed, probed>>

\* Solver::reset
Reset ==
    /\ pc = "idle"
    /\ tpc = "off"
    /\ board' = clear(board, W, H)
    /\ path' = <<>>
    /\ backtrackCount' = 0
    /\ lastOp' = "reset"
    /\ lastRet' = FALSE
    /\ pre' = Null
    /\ UNCHANGED <<W, H, startRow, startCol, tourType, stack, pc, ret, error, calls,
                   cur, prev, sinceReset, testVars>>
    /\ UNCHANGED call
    /\ UNCHANGED <<placed, probed>>

\* Solver::validatePath called by a client
ValidatePath ==
    /\ pc = "idle"
    /\ tpc = "off"
    /\ lastOp' = "validatePath"
    /\ lastRet' = validatePath(W, H, path, tourType)
    /\ UNCHANGED <<W, H, solverVars, stack, pc, ret, error, calls, ghostVars, testVars>>
    /\ UNCHANGED call
    /\ UNCHANGED <<placed, probed>>

\* Solver::getPathStatistics called by a client
GetPathStatistics ==
    /\ pc = "idle"
    /\ tpc = "off"
    /\ lastOp' = "getPathStatistics"
    /\ lastRet' = getPathStatistics(W, H, path)
    /\ UNCHANGED <<W, H, solverVars, stack, pc, ret, error, calls, ghostVars, testVars>>
    /\ UNCHANGED call
    /\ UNCHANGED <<placed, probed>>

----------------------------------------------------------------------------
(* Small boards, every start in and just out of bounds, several calls *)

\* <<width, height>> of the boards: Board::Board accepts sides of 1 .. MAX_DIM
Boards ==
    {d \in (1 .. MaxSide) \X (1 .. MaxSide) :
        d[1] <= MAX_DIM /\ d[2] <= MAX_DIM /\ d[1] * d[2] <= MaxCells}

NoTest ==
    /\ tpc = "off"
    /\ tRow = 0
    /\ tCol = 0
    /\ successCount = 0
    /\ totalBacktracks = 0
    /\ avgBacktracks = 0

Init ==
    /\ \E d \in Boards : Constructed(d[1], d[2])
    /\ NoTest

Search == Enter \/ Iterate \/ CheckDeadEnd \/ Return \/ Finish

Next ==
    \/ \E row \in -1 .. H, col \in -1 .. W, type \in TourTypes :
           Solve(row, col, type, MaxCalls)
    \/ Search
    \/ Reset
    \/ ValidatePath
    \/ GetPathStatistics

Spec == Init /\ [][Next]_vars

----------------------------------------------------------------------------
(* Standard boards, one solve in a behaviour *)

\* The starts of a w x h board whose row + col is even
EvenStarts(w, h) == {p \in Cells(w, h) : (p[1] + p[2]) % 2 = 0}

\* The 7 x 7 starts this specification runs
SevenStarts ==
    {<<0, 0>>, <<0, 2>>, <<0, 4>>, <<0, 6>>, <<1, 1>>, <<1, 3>>, <<1, 5>>, <<2, 0>>,
     <<2, 6>>, <<3, 3>>, <<4, 0>>, <<4, 6>>, <<5, 1>>, <<5, 5>>, <<6, 0>>, <<6, 6>>}

\* The calls solve(row, col, type) this specification makes on a w x h board,
\* as <<row, col, type>>
StdCases(w, h) ==
    IF w = 8 /\ h = 8
    THEN {<<p[1], p[2], OPEN>> : p \in Cells(8, 8)}
            \cup {<<0, 3, CLOSED>>, <<0, 4, CLOSED>>, <<8, 0, OPEN>>}
    ELSE IF w = 7 /\ h = 7
    THEN {<<p[1], p[2], OPEN>> : p \in SevenStarts}
    ELSE IF w = 6 /\ h = 6
    THEN {<<p[1], p[2], OPEN>> : p \in Cells(6, 6)} \cup {<<1, 1, CLOSED>>}
    ELSE IF w = 6 /\ h = 5
    THEN {<<1, 5, CLOSED>>, <<1, 5, OPEN>>}
    ELSE IF w = 5 /\ h = 5
    THEN {<<p[1], p[2], OPEN>> : p \in EvenStarts(5, 5)}
            \cup {<<1, 2, OPEN>>, <<0, 0, CLOSED>>}
    ELSE IF <<w, h>> \in Boards
    THEN {<<p[1], p[2], t>> : p \in Cells(w, h), t \in TourTypes} \cup {<<h, 0, OPEN>>}
    ELSE {}

StdBoards == Boards \cup {<<5, 5>>, <<6, 5>>, <<6, 6>>, <<7, 7>>, <<8, 8>>}

InitStd ==
    /\ \E d \in StdBoards : Constructed(d[1], d[2])
    /\ NoTest

NextStd ==
    \/ \E c \in StdCases(W, H) : Solve(c[1], c[2], c[3], 1)
    \/ Search
    \/ Reset
    \/ ValidatePath
    \/ GetPathStatistics

SpecStd == InitStd /\ [][NextStd]_vars

\* The small boards, one solve in a behaviour
SpecOne == Init /\ [][NextStd]_vars

\* solve runs without interruption: a search that can take a step takes it
SpecLive == SpecOne /\ WF_vars(Search)

----------------------------------------------------------------------------
(* testAllPositions of src/src/main.cpp *)

\* The side of the board testAllPositions runs on
TestSide == 8

\* main.cpp 268-274: a fresh board and solver, and solve(row, col, OPEN)
TestSolve ==
    /\ tpc = "loop"
    /\ pc = "idle"
    /\ IF isValid(W, H, tRow, tCol)
       THEN solveValid(newBoard(W, H), tRow, tCol, OPEN)
       ELSE /\ board' = newBoard(W, H)
            /\ path' = <<>>
            /\ backtrackCount' = 0
            /\ startRow' = 0
            /\ startCol' = 0
            /\ tourType' = OPEN
            /\ lastOp' = "solve"
            /\ lastRet' = FALSE
            /\ UNCHANGED <<stack, pc, ret, error, placed>>
    /\ tpc' = "solving"
    /\ UNCHANGED <<W, H, calls, ghostVars, tRow, tCol, successCount, totalBacktracks,
                   avgBacktracks>>
    /\ UNCHANGED call
    /\ UNCHANGED probed

\* main.cpp 279-292, and the steps of the two loops
TestCollect ==
    /\ tpc = "solving"
    /\ pc = "idle"
    /\ successCount' = IF lastRet THEN successCount + 1 ELSE successCount
    /\ totalBacktracks' = IF lastRet THEN totalBacktracks + backtrackCount
                          ELSE totalBacktracks
    /\ tCol' = IF tCol + 1 < TestSide THEN tCol + 1 ELSE 0
    /\ tRow' = IF tCol + 1 < TestSide THEN tRow ELSE tRow + 1
    /\ tpc' = IF tCol + 1 < TestSide \/ tRow + 1 < TestSide THEN "loop" ELSE "report"
    /\ UNCHANGED <<W, H, solverVars, stack, pc, ret, error, lastOp, lastRet, calls,
                   ghostVars, avgBacktracks>>
    /\ UNCHANGED call
    /\ UNCHANGED <<placed, probed>>

\* main.cpp 295-304: the printed average; dividing by a zero successCount
\* ends the program
TestReport ==
    /\ tpc = "report"
    /\ IF successCount = 0
       THEN /\ error' = TRUE
            /\ UNCHANGED avgBacktracks
       ELSE /\ avgBacktracks' = totalBacktracks \div successCount
            /\ UNCHANGED error
    /\ tpc' = "done"
    /\ UNCHANGED <<W, H, solverVars, stack, pc, ret, lastOp, lastRet, calls,
                   ghostVars, tRow, tCol, successCount, totalBacktracks>>
    /\ UNCHANGED call
    /\ UNCHANGED <<placed, probed>>

InitTest ==
    /\ Constructed(TestSide, TestSide)
    /\ tpc = "loop"
    /\ tRow = 0
    /\ tCol = 0
    /\ successCount = 0
    /\ totalBacktracks = 0
    /\ avgBacktracks = 0

NextTest == TestSolve \/ Search \/ TestCollect \/ TestReport

SpecTest == InitTest /\ [][NextTest]_vars

----------------------------------------------------------------------------
(* Board as a client uses it: the constructor and the member functions *)

\* Bytes of a size_t
SizeBytes == 8

\* Elements of the largest std::vector<int>, 2^61 - 1, have a last byte below this
MaxSizeTopByte == 32

\* Byte i (0 the least significant) of a size_t value x below 2^31
Byte(x, i) == IF i < 0 \/ i > 3 THEN 0 ELSE (x \div (256 ^ i)) % 256

\* Column k of the long multiplication of a and b
mulColumn(a, b, k) ==
    Byte(a, 0) * Byte(b, k) + Byte(a, 1) * Byte(b, k - 1)
        + Byte(a, 2) * Byte(b, k - 2) + Byte(a, 3) * Byte(b, k - 3)

\* width * height in size_t arithmetic: the bytes of the product, least
\* significant first, what does not fit in a size_t dropped
RECURSIVE mulBytes(_, _, _, _)
mulBytes(a, b, k, carry) ==
    IF k = SizeBytes
    THEN <<>>
    ELSE LET t == mulColumn(a, b, k) + carry
         IN  <<t % 256>> \o mulBytes(a, b, k + 1, t \div 256)

sizeMul(a, b) == mulBytes(a, b, 0, 0)

\* What board_(width * height, 0) in the initializer list does with n elements,
\* before the body of the constructor tests the dimensions: more elements than
\* std::vector<int>::max_size() are refused with std::length_error; the memory
\* of any vector that can be created is taken to be available (where it is
\* not, operator new throws std::bad_alloc instead)
allocOutcomes(n) ==
    IF n[SizeBytes] >= MaxSizeTopByte
    THEN {"length_error"}
    ELSE {"ok"}

\* What Board::Board(width, height) throws when the allocation went as alloc
constructorThrows(width, height, alloc) ==
    IF alloc # "ok"
    THEN alloc
    ELSE IF width = 0 \/ height = 0
    THEN "invalid_argument"
    ELSE IF width > MAX_DIM \/ height > MAX_DIM
    THEN "invalid_argument"
    ELSE "none"

\* A call with its outcome
Call(op, row, col, arg, thrown, result) ==
    [op |-> op, row |-> row, col |-> col, arg |-> arg, thrown |-> thrown,
     result |-> result, before |-> board]

\* Board::Board(width, height), while no board exists
Construct(width, height) ==
    /\ pc = "idle"
    /\ tpc = "off"
    /\ W = 0
    /\ \E alloc \in allocOutcomes(sizeMul(width, height)) :
          LET thrown == constructorThrows(width, height, alloc)
          IN  /\ call' = Call("Board", height, width, 0, thrown, thrown = "none")
              /\ IF thrown = "none"
                 THEN /\ W' = width
                      /\ H' = height
                      /\ board' = newBoard(width, height)
                 ELSE UNCHANGED <<W, H, board>>
    /\ UNCHANGED <<path, backtrackCount, startRow, startCol, tourType, stack, pc, ret,
                   error, lastOp, lastRet, calls, ghostVars, testVars, placed, probed>>

\* Board::countValidMoves, its loop from KNIGHT_MOVES[i] on with count so far
RECURSIVE countFrom(_, _, _, _, _, _, _)
countFrom(b, w, h, row, col, i, count) ==
    IF i > Len(KNIGHT_MOVES)
    THEN count
    ELSE LET newRow == row + KNIGHT_MOVES[i][1]
             newCol == col + KNIGHT_MOVES[i][2]
         IN  IF isValid(w, h, newRow, newCol) /\ ~isVisited(b, newRow, newCol)
             THEN countFrom(b, w, h, row, col, i + 1, count + 1)
             ELSE countFrom(b, w, h, row, col, i + 1, count)

\* Board::countValidMoves with a loop that leaves out the first offset
countValidMovesSkipsFirst(b, w, h, row, col) == countFrom(b, w, h, row, col, 2, 0)

\* Board::countValidMoves
countValidMoves(b, w, h, row, col) == countFrom(b, w, h, row, col, 1, 0)

\* The coordinates a client passes on a side of n squares: the two at either
\* end and the one outside the grid next to each
Near(n) == {i \in -1 .. n : i <= 1 \/ i >= n - 2}

\* Most cells of a board that hold a non-zero value in the Board specification
MaxMarks == 1

\* The move numbers a client writes
MarkValues == 0 .. MaxMarks

\* The member functions that change the board, and the constructor
Mutators == {"Board", "set", "clear"}

\* A member function may be called on a board that exists, between solver
\* calls. A client's calls are its writes followed by one read or by a call
\* that throws: these leave the board as it is, so what can follow them can
\* follow the write before them
CanCall ==
    /\ pc = "idle"
    /\ tpc = "off"
    /\ W > 0
    /\ call.op \in Mutators
    /\ call.thrown = "none"

\* The member functions that leave the board as it is
BoardQuery(c) ==
    /\ CanCall
    /\ call' = c
    /\ UNCHANGED <<W, H, solverVars, stack, pc, ret, error, lastOp, lastRet, calls,
                   ghostVars, testVars, placed, probed>>

\* Board::isValid(row, col)
BoardIsValid(row, col) ==
    BoardQuery(Call("isValid", row, col, 0, "none", isValid(W, H, row, col)))

\* Board::at(row, col)
BoardAt(row, col) ==
    BoardQuery(IF atThrows(W, H, row, col)
               THEN Call("at", row, col, 0, "out_of_range", 0)
               ELSE Call("at", row, col, 0, "none", at(board, row, col)))

\* Board::isVisited(row, col)
BoardIsVisited(row, col) ==
    BoardQuery(IF atThrows(W, H, row, col)
               THEN Call("isVisited", row, col, 0, "out_of_range", FALSE)
               ELSE Call("isVisited", row, col, 0, "none", isVisited(board, row, col)))

\* Board::getValidMoves(row, col, onlyUnvisited)
BoardGetValidMoves(row, col, onlyUnvisited) ==
    BoardQuery(Call("getValidMoves", row, col, onlyUnvisited, "none",
                    getValidMoves(board, W, H, row, col, onlyUnvisited)))

\* Board::countValidMoves(row, col)
BoardCountValidMoves(row, col) ==
    BoardQuery(Call("countValidMoves", row, col, 0, "none",
                    countValidMoves(board, W, H, row, col)))

\* Board::set(row, col, moveNumber)
BoardSet(row, col, moveNumber) ==
    /\ CanCall
    /\ (moveNumber # 0 /\ isValid(W, H, row, col) /\ at(board, row, col) = 0)
            => Cardinality({p \in DOMAIN board : board[p] # 0}) < MaxMarks
    /\ call' = Call("set", row, col, moveNumber,
                    IF atThrows(W, H, row, col) THEN "out_of_range" ELSE "none", 0)
    /\ board' = set(board, W, H, row, col, moveNumber)
    /\ UNCHANGED <<W, H, path, backtrackCount, startRow, startCol, tourType, stack, pc,
                   ret, error, lastOp, lastRet, calls, ghostVars, testVars, placed, probed>>

\* Board::clear()
BoardClear ==
    /\ CanCall
    /\ call' = Call("clear", 0, 0, 0, "none", 0)
    /\ board' = clear(board, W, H)
    /\ UNCHANGED <<W, H, path, backtrackCount, startRow, startCol, tourType, stack, pc,
                   ret, error, lastOp, lastRet, calls, ghostVars, testVars, placed, probed>>

\* A dimension no board can have that still multiplies within a size_t
HugeDim == 2000000000

\* The dimensions a client passes to Board::Board
Dims == (0 .. MaxSide) \cup {MAX_DIM, MAX_DIM + 1, HugeDim}

\* No board yet
InitBoard ==
    /\ Constructed(0, 0)
    /\ NoTest

NextBoard ==
    \/ \E width, height \in Dims :
          /\ (width <= MAX_DIM /\ height <= MAX_DIM /\ width * height > MaxCells)
                => (width = MAX_DIM /\ height = 1) \/ (width = 1 /\ height = MAX_DIM)
          /\ Construct(width, height)
    \/ \E row \in Near(H), col \in Near(W) :
          \/ BoardIsValid(row, col)
          \/ BoardAt(row, col)
          \/ BoardIsVisited(row, col)
          \/ \E onlyUnvisited \in BOOLEAN : BoardGetValidMoves(row, col, onlyUnvisited)
          \/ BoardCountValidMoves(row, col)
          \/ \E moveNumber \in MarkValues : BoardSet(row, col, moveNumber)
    \/ BoardClear

SpecBoard == InitBoard /\ [][NextBoard]_vars

----------------------------------------------------------------------------
(* Properties *)

\* A solve call on an in-bounds start has returned, and no call was made since
Returned == pc = "idle" /\ lastOp = "solve" /\ pre = Null

\* One knight move apart
KnightStep(p, q) == <<Abs(p[1] - q[1]), Abs(p[2] - q[2])>> \in {<<1, 2>>, <<2, 1>>}

Distinct(p) == \A i, j \in 1 .. Len(p) : i # j => p[i] # p[j]

InBounds(w, h, p) == \A i \in 1 .. Len(p) : p[i] \in Cells(w, h)

LegalSteps(p) == \A i \in 1 .. Len(p) - 1 : KnightStep(p[i], p[i + 1])

\* p covers the w x h board by knight moves
Covers(w, h, p) == Len(p) = w * h /\ InBounds(w, h, p) /\ Distinct(p) /\ LegalSteps(p)

\* p is a knight's tour of the w x h board of type tt
IsTour(w, h, p, tt) ==
    Covers(w, h, p) /\ (tt = CLOSED => KnightStep(p[Len(p)], p[1]))

\* The visited squares and the last one can be completed to a tour from start
RECURSIVE CanFinish(_, _, _, _, _, _)
CanFinish(w, h, visited, pos, start, tt) ==
    IF Cardinality(visited) = w * h
    THEN tt = OPEN \/ KnightStep(pos, start)
    ELSE \E q \in Cells(w, h) \ visited :
            KnightStep(pos, q) /\ CanFinish(w, h, visited \cup {q}, q, start, tt)

\* A knight's tour of type tt that begins at start exists on the w x h board
TourExists(w, h, start, tt) == CanFinish(w, h, {start}, start, start, tt)

\* C1: when solve returns true, the path has W*H positions, begins at the start
\* square, stays in bounds, repeats no square, moves by knight steps only and,
\* for a CLOSED tour, ends one knight move from the start.
C1_SuccessIsTour ==
    (Returned /\ lastRet) =>
        /\ IsTour(W, H, path, tourType)
        /\ path[1] = <<startRow, startCol>>

C1_Witness ==
    Returned /\ lastRet /\ tourType = CLOSED /\ W = 8 /\ backtrackCount > 0

C4_Original ==
    (Returned /\ W = H /\ W \in {1, 2}) => (~lastRet /\ ~error)

\* C4 amended: on a 2x2 board solve returns false for every start and either
\* tour type; on a 1x1 board solve returns false for CLOSED and true, with the
\* one-square path, for OPEN; none of these calls raises an error.
C4_TinyBoards ==
    (Returned /\ W = H /\ W \in {1, 2}) =>
        /\ ~error
        /\ lastRet <=> (W = 1 /\ tourType = OPEN)
        /\ lastRet => path = <<<<0, 0>>>>

C4_Witness == Returned /\ W = 1 /\ H = 1 /\ tourType = OPEN /\ lastRet

\* C5: a solve with an out-of-bounds start returns false at once and changes
\* no cell, nor the path, the backtrack count, the tour type or the start; a
\* tour found before is still what the getters and validatePath report.
C5_InvalidStartNoEffect ==
    pre # Null =>
        /\ pc = "idle"
        /\ ~error
        /\ Snapshot = pre
        /\ lastOp = "solve" => ~lastRet
        /\ (cur # Null /\ cur.result /\ pre.path = cur.path) =>
              /\ path = cur.path
              /\ backtrackCount = cur.backtrackCount
              /\ board = cur.board
              /\ lastOp = "validatePath" => lastRet

C5_Witness ==
    /\ pre # Null
    /\ cur # Null
    /\ cur.result
    /\ pre.path = cur.path
    /\ Len(path) = 12
    /\ lastOp = "validatePath"

\* C6: on the 8x8 board, solve(0, 0, OPEN) returns true with a path of 64
\* positions and at most 9 backtracks, and validatePath is true of it.
C6_Standard ==
    (Returned /\ W = 8 /\ H = 8 /\ startRow = 0 /\ startCol = 0 /\ tourType = OPEN) =>
        /\ lastRet
        /\ Len(path) = 64
        /\ backtrackCount <= 9
        /\ validatePath(W, H, path, tourType)

C6_Witness ==
    Returned /\ W = 8 /\ H = 8 /\ startRow = 0 /\ startCol = 0 /\ tourType = OPEN

\* C7: testAllPositions finds a tour from each of the 64 starts of the 8x8
\* board, and the average of the backtrack counts, rounded down, is 0.
C7_AllStarts ==
    tpc = "done" => (~error /\ successCount = 64 /\ avgBacktracks = 0)

C7_Witness == tpc = "done" /\ successCount = 64

\* C8: validatePath called after a solve that returned true returns true; the
\* solve of the 5x5 board from (0, 0) with CLOSED returns without an error.
C8_SuccessValidates ==
    /\ (lastOp = "validatePath" /\ pre = Null /\ cur # Null /\ cur.result
            /\ path = cur.path) => lastRet
    /\ (Returned /\ lastRet) => validatePath(W, H, path, tourType)
    /\ (W = 5 /\ H = 5 /\ tourType = CLOSED) => ~error

C8_Witness ==
    /\ lastOp = "validatePath"
    /\ lastRet
    /\ pre = Null /\ cur # Null /\ cur.result /\ path = cur.path
    /\ tourType = CLOSED

\* C9: validatePath returns true exactly when the stored path is a tour of the
\* stored type: W*H positions, in bounds, distinct, knight steps, and for
\* CLOSED the last position one knight move from the first.
C9_Original ==
    lastOp = "validatePath" => (lastRet <=> IsTour(W, H, path, tourType))

\* C10: reset followed by solve with the arguments of the previous solve gives
\* the same result, the same length of path, the same first and last position
\* and the same backtrack count.
C10_ResetThenSolveAgain ==
    (pc = "idle" /\ cur # Null /\ prev # Null /\ sinceReset
        /\ cur.row = prev.row /\ cur.col = prev.col /\ cur.type = prev.type) =>
        /\ cur.result = prev.result
        /\ Len(cur.path) = Len(prev.path)
        /\ cur.path[1] = prev.path[1]
        /\ cur.path[Len(cur.path)] = prev.path[Len(prev.path)]
        /\ cur.backtrackCount = prev.backtrackCount

C10_Witness ==
    /\ pc = "idle" /\ cur # Null /\ prev # Null /\ sinceReset
    /\ cur.row = prev.row /\ cur.col = prev.col /\ cur.type = prev.type
    /\ cur.result
    /\ Len(cur.path) = 12

\* The squares of the board that hold a move number
Numbered == {p \in DOMAIN board : board[p] # 0}

\* C11: the non-zero values on the board are pairwise different and are exactly
\* 1 .. count, count being the number of non-zero cells, in every state of a
\* solve and after it, the tentative move of the look-ahead included.
C11_Contiguous ==
    /\ \A p, q \in Numbered : board[p] = board[q] => p = q
    /\ {board[p] : p \in Numbered} = 1 .. Cardinality(Numbered)

C11_Witness ==
    /\ pc = "probe"
    /\ backtrackCount > 0
    /\ Cardinality(Numbered) = Len(path) + 1
    /\ Len(path) >= 6

\* C12: every solve call terminates: a search that has begun reaches the return
\* of solve, with the result true or, after the root ran out of candidates,
\* false.
C12_Terminates == (pc # "idle") ~> (pc = "idle" /\ lastOp = "solve")

C12_Witness ==
    /\ Returned
    /\ ~lastRet
    /\ backtrackCount > 40
    /\ path = <<<<startRow, startCol>>>>

\* C13: during a solve, on a valid or an invalid start, no Board accessor is
\* given a position outside the grid and no error is raised: the start that is
\* placed, the square of every activation, every candidate of the move
\* generator and every position of the path are in bounds.
C13_InBounds ==
    /\ ~error
    /\ lastOp # "threw"
    /\ \A i \in 1 .. Len(path) : isValid(W, H, path[i][1], path[i][2])
    /\ \A k \in 1 .. Len(stack) :
          /\ isValid(W, H, stack[k].row, stack[k].col)
          /\ \A i \in 1 .. Len(stack[k].validMoves) :
                isValid(W, H, stack[k].validMoves[i][1], stack[k].validMoves[i][2])

C13_Witness ==
    /\ pc = "probe"
    /\ Len(path) >= 8
    /\ backtrackCount > 0
    /\ Top.row = 0

\* The dimensions Board::Board is documented to reject
BadDims(width, height) ==
    width = 0 \/ height = 0 \/ width > MAX_DIM \/ height > MAX_DIM

\* C14: Board::Board(width, height) fails with an invalid-argument error
\* whenever a dimension is 0 or above 1000, however large, and otherwise
\* succeeds with width * height cells, all 0.
C14_Original ==
    (call # Null /\ call.op = "Board") =>
        LET width == call.col
            height == call.row
        IN  IF BadDims(width, height)
            THEN call.thrown = "invalid_argument" /\ W = 0
            ELSE /\ call.thrown = "none"
                 /\ W = width
                 /\ H = height
                 /\ DOMAIN board = Cells(width, height)
                 /\ Cardinality(DOMAIN board) = width * height
                 /\ \A p \in DOMAIN board : board[p] = 0

\* C15: isValid is true exactly in 0 <= row < H, 0 <= col < W and never fails;
\* at, set and isVisited fail with an out-of-range error outside the grid and
\* then change no cell; in the grid set writes that one cell only and at
\* returns what the cell holds, the value last written, 0 after clear. Cells
\* are told apart by toIndex: distinct squares have distinct indices below
\* size().
C15_Accessors ==
    (call # Null /\ call.op # "Board") =>
        LET row == call.row
            col == call.col
            inside == 0 <= row /\ row < H /\ 0 <= col /\ col < W
        IN  /\ call.op = "isValid" =>
                  call.thrown = "none" /\ call.result = inside /\ board = call.before
            /\ (call.op \in {"at", "set", "isVisited"} /\ ~inside) =>
                  call.thrown = "out_of_range" /\ board = call.before
            /\ (call.op \in {"at", "set", "isVisited"} /\ inside) =>
                  call.thrown = "none"
            /\ (call.op = "set" /\ inside) =>
                  /\ board[<<row, col>>] = call.arg
                  /\ \A p \in DOMAIN board : p # <<row, col>> => board[p] = call.before[p]
            /\ (call.op = "at" /\ inside) =>
                  call.result = board[<<row, col>>] /\ board = call.before
            /\ (call.op = "isVisited" /\ inside) =>
                  call.result = (board[<<row, col>>] # 0) /\ board = call.before
            /\ call.op = "clear" => \A p \in DOMAIN board : board[p] = 0
            /\ LET indices == {toIndex(W, p[1], p[2]) : p \in Cells(W, H)}
               IN  /\ indices \subseteq 0 .. size(W, H) - 1
                   /\ Cardinality(indices) = Cardinality(Cells(W, H))

C15_Witness ==
    /\ call # Null
    /\ call.op = "at"
    /\ call.thrown = "none"
    /\ call.result = 1
    /\ W = 3
    /\ H = 4

\* The eight knight-offset destinations of a square
Destinations(row, col) ==
    {p \in (row - 2 .. row + 2) \X (col - 2 .. col + 2) :
        {Abs(p[1] - row), Abs(p[2] - col)} = {1, 2}}

\* C16: getValidMoves(row, col, onlyUnvisited), from a source in the grid or
\* not, returns exactly the knight-offset destinations that are in bounds,
\* and of these only the cells holding 0 when onlyUnvisited is true; it returns
\* at most 8 positions, none twice, raises no error and leaves the board alone.
C16_GetValidMoves ==
    (call # Null /\ call.op = "getValidMoves") =>
        LET moves == call.result
            expected ==
                {p \in Destinations(call.row, call.col) :
                    /\ p \in DOMAIN board
                    /\ call.arg => board[p] = 0}
        IN  /\ call.thrown = "none"
            /\ board = call.before
            /\ Len(moves) <= 8
            /\ {moves[i] : i \in 1 .. Len(moves)} = expected
            /\ Len(moves) = Cardinality(expected)

C16_Witness ==
    /\ call # Null
    /\ call.op = "getValidMoves"
    /\ call.arg
    /\ ~isValid(W, H, call.row, call.col)
    /\ Len(call.result) = 1
    /\ \E p \in DOMAIN board : board[p] # 0 /\ KnightStep(p, <<call.row, call.col>>)

\* C17: for every position, in the grid or next to it, and every board the
\* search produces, countValidMoves(row, col) is the number of positions
\* getValidMoves(row, col, true) returns, and is the degree countAvailableMoves
\* that the solver orders the moves by.
C17_CountAgrees ==
    \A row \in -1 .. H, col \in -1 .. W :
        /\ countValidMoves(board, W, H, row, col)
              = Len(getValidMoves(board, W, H, row, col, TRUE))
        /\ countValidMoves(board, W, H, row, col)
              = countAvailableMoves(board, W, H, row, col)

C17_Witness ==
    /\ pc = "probe"
    /\ Cardinality(Numbered) >= 8
    /\ \E p \in DOMAIN board : countValidMoves(board, W, H, p[1], p[2]) = 2
    /\ \E p \in DOMAIN board :
          /\ countValidMoves(board, W, H, p[1], p[2]) = 0
          /\ Len(getValidMoves(board, W, H, p[1], p[2], FALSE)) = 3

\* C18: on a board with both sides at least 5, directly after clear(), a corner
\* has degree 2, any other square of the boundary degree 3 or 4, and an
\* interior square a degree from 4 to 8.
C18_Degrees ==
    (pc = "idle" /\ lastOp = "reset" /\ W >= 5 /\ H >= 5) =>
        \A p \in Cells(W, H) :
            LET degree == countValidMoves(board, W, H, p[1], p[2])
                onRowEdge == p[1] \in {0, H - 1}
                onColEdge == p[2] \in {0, W - 1}
            IN  IF onRowEdge /\ onColEdge
                THEN degree = 2
                ELSE IF onRowEdge \/ onColEdge
                THEN degree \in {3, 4}
                ELSE degree \in 4 .. 8

C18_Witness ==
    /\ pc = "idle"
    /\ lastOp = "reset"
    /\ cur # Null
    /\ cur.result
    /\ W = 6
    /\ H = 5
    /\ countValidMoves(board, W, H, 2, 3) = 8

\* C19: reset() runs no search and, whatever the solver did before, leaves
\* every cell 0, the path empty and the backtrack count 0; validatePath()
\* called directly after it returns false and getPathStatistics() reports 0 in
\* every field.
C19_Reset ==
    /\ (pc = "idle" /\ lastOp = "reset") =>
          /\ \A p \in DOMAIN board : board[p] = 0
          /\ path = <<>>
          /\ backtrackCount = 0
          /\ stack = <<>>
          /\ ~validatePath(W, H, path, tourType)
          /\ getPathStatistics(W, H, path) = noStatistics
    /\ (lastOp = "validatePath" /\ path = <<>>) => lastRet = FALSE
    /\ (lastOp = "getPathStatistics" /\ path = <<>>) => lastRet = noStatistics

C19_Witness ==
    /\ lastOp = "getPathStatistics"
    /\ path = <<>>
    /\ cur # Null
    /\ cur.result
    /\ Len(cur.path) = 12

\* What getPathStatistics returned fits the path it was called on
C20_Fits ==
    lastOp = "getPathStatistics" =>
        /\ lastRet.totalMoves = Len(path)
        /\ lastRet.cornerVisits + lastRet.edgeVisits + lastRet.centerVisits
              = lastRet.totalMoves
        /\ lastRet.cornerVisits
              = Cardinality({i \in 1 .. Len(path) :
                    path[i][1] \in {0, H - 1} /\ path[i][2] \in {0, W - 1}})
        /\ lastRet.centerVisits
              = Cardinality({i \in 1 .. Len(path) :
                    path[i][1] \in 1 .. H - 2 /\ path[i][2] \in 1 .. W - 2})
        /\ (Covers(W, H, path) /\ W >= 2 /\ H >= 2) =>
              /\ lastRet.cornerVisits = 4
              /\ lastRet.edgeVisits = 2 * (W - 2) + 2 * (H - 2)
              /\ lastRet.centerVisits = (W - 2) * (H - 2)

\* C20: getPathStatistics() puts every position of the path in exactly one of
\* corner, edge and center, so the three counts add up to totalMoves, the
\* length of the path; for a complete tour of a board with W, H >= 2 they are
\* 4, 2*(W-2) + 2*(H-2) and (W-2)*(H-2); the call changes neither the board,
\* the path nor the backtrack count.
C20_Statistics ==
    /\ []C20_Fits
    /\ [][lastOp' = "getPathStatistics" => UNCHANGED <<board, path, backtrackCount>>]_vars

C20_Witness ==
    /\ lastOp = "getPathStatistics"
    /\ W = 8
    /\ H = 8
    /\ Covers(W, H, path)
    /\ lastRet.edgeVisits = 24
    /\ lastRet.centerVisits = 36

\* The squares of a path
Squares(p) == {p[i] : i \in 1 .. Len(p)}

\* The candidate the look-ahead of the innermost activation is looking at
Candidate == Top.validMoves[Top.i]

\* The look-ahead is about to report a dead end for its candidate
Pruning == pc = "probe" /\ hasDeadEnd(board, W, H, Candidate)

\* Most unvisited squares for which the tours that extend a path are enumerated
MaxOpen == 14

\* C21: whenever the look-ahead prunes a candidate, in an OPEN or a CLOSED
\* search, no complete tour of the board extends the current path through that
\* candidate: pruning discards only hopeless moves. The stranded neighbour
\* could only be the square after the candidate and the last of a tour, which
\* it is not while more than two squares are unvisited.
C21_PruneSound ==
    Pruning =>
        /\ W * H - Len(path) > 2
        /\ W * H - Len(path) <= MaxOpen =>
              ~CanFinish(W, H, Squares(path) \cup {Candidate}, Candidate,
                         <<startRow, startCol>>, tourType)

C21_Witness ==
    /\ Pruning
    /\ W >= 5
    /\ W * H - Len(path) <= MaxOpen
    /\ CanFinish(W, H, Squares(path), path[Len(path)], <<startRow, startCol>>, tourType)

\* The loop of the innermost activation has a candidate to deal with
AtCandidate == pc \in {"loop", "probe"} /\ Top.i <= Len(Top.validMoves)

\* The step places its candidate and calls backtrack for it
Places ==
    /\ pc' = "enter"
    /\ path' = Append(path, Candidate)
    /\ board' = [board EXCEPT ![Candidate] = Top.moveNumber]
    /\ Len(stack') = Len(stack) + 1

\* The step skips its candidate: the loop goes on with the next one
Skips ==
    /\ pc' = "loop"
    /\ path' = path
    /\ stack' = NextCandidate

\* C22 as stated: the last candidate left at a step is never pruned: once the
\* loop has reached it, it is placed and recursed into.
C22_Original ==
    [][(AtCandidate /\ Top.i = Len(Top.validMoves) /\ pc' # "probe") => Places]_vars

\* C22 amended: at a step with two or more candidates the look-ahead is run on
\* every candidate, the last in order included, and a candidate that creates a
\* dead end is skipped; at a step with exactly one candidate the look-ahead is
\* not run and the candidate is placed and recursed into.
C22_SoleCandidate ==
    [][/\ (AtCandidate /\ pc = "loop" /\ Len(Top.validMoves) = 1) => Places
       /\ (AtCandidate /\ pc = "loop" /\ Len(Top.validMoves) > 1) =>
              /\ pc' = "probe"
              /\ UNCHANGED <<path, stack>>
       /\ pc = "probe" =>
              /\ Len(Top.validMoves) > 1
              /\ IF hasDeadEnd(board, W, H, Candidate) THEN Skips ELSE Places]_vars

C22_Witness ==
    /\ pc = "enter"
    /\ Len(stack) >= 2
    /\ Len(stack[Len(stack) - 1].validMoves) = 1
    /\ hasDeadEnd(board, W, H, path[Len(path)])
    /\ Len(path) < W * H

\* The unvisited squares one knight move from p
Onward(p) == {q \in DOMAIN board : KnightStep(p, q) /\ board[q] = 0}

\* Manhattan distance of p from the centre (H/2, W/2), in integer division
FromCentre(p) == Abs(p[1] - H \div 2) + Abs(p[2] - W \div 2)

\* The candidates of the innermost activation are the unvisited knight moves from
\* its square, each once, in ascending order of degree on the board as it is
\* when none of them is placed, and at equal degree in descending order of
\* distance from the centre
C23_Ordered ==
    pc = "loop" =>
        LET moves == Top.validMoves
        IN  /\ Squares(moves) = Onward(<<Top.row, Top.col>>)
            /\ Len(moves) = Cardinality(Squares(moves))
            /\ \A j, k \in 1 .. Len(moves) :
                  j < k =>
                    LET dj == Cardinality(Onward(moves[j]))
                        dk == Cardinality(Onward(moves[k]))
                    IN  /\ dj <= dk
                        /\ dj = dk => FromCentre(moves[j]) >= FromCentre(moves[k])

\* C23: at every step the unvisited knight moves from the current position are
\* tried in ascending order of degree, the number of unvisited neighbours on the
\* board before the candidate is placed; of two candidates of equal degree the
\* one farther from the centre (H/2, W/2) is tried first. The loop takes the
\* candidates one after the other in that order.
C23_TriedInOrder ==
    /\ []C23_Ordered
    /\ [][/\ (pc = "loop" /\ pc' = "probe") =>
              board' = [board EXCEPT ![Candidate] = Top.moveNumber]
          /\ (AtCandidate /\ pc' = "enter") => path' = Append(path, Candidate)
          /\ (AtCandidate /\ pc' = "loop") => stack' = NextCandidate
          /\ (pc = "return" /\ pc' = "loop") =>
              /\ stack'[Len(stack')].validMoves = Top.validMoves
              /\ stack'[Len(stack')].i = Top.i + 1]_vars

C23_Witness ==
    /\ pc = "loop"
    /\ Top.i = 3
    /\ backtrackCount > 0
    /\ \E j, k \in 1 .. Len(Top.validMoves) :
          /\ j < k
          /\ Cardinality(Onward(Top.validMoves[j])) = Cardinality(Onward(Top.validMoves[k]))
          /\ FromCentre(Top.validMoves[j]) > FromCentre(Top.validMoves[k])
    /\ \E j, k \in 1 .. Len(Top.validMoves) :
          /\ j < k
          /\ Cardinality(Onward(Top.validMoves[j])) < Cardinality(Onward(Top.validMoves[k]))
          /\ FromCentre(Top.validMoves[j]) < FromCentre(Top.validMoves[k])

\* A solve on a valid start is running
Solving == pc # "idle" /\ lastOp = "solving"

\* The board holds i at the i-th position of the path and 0 everywhere else
BoardIsPath ==
    /\ \A i \in 1 .. Len(path) : board[path[i]] = i
    /\ \A p \in DOMAIN board \ Squares(path) : board[p] = 0

\* C24: path and board stay in step as a stack. When backtrack is entered with
\* move number k, and when solve has returned, the path begins at the start
\* square, its positions are pairwise distinct squares of the board, consecutive
\* ones a knight move apart, the cell of the i-th position (counted from 1)
\* holds i and every other cell holds 0; at the entry with move number k the
\* path has k - 1 positions, the last of them the square backtrack was called
\* for, and the activation below the top was called with the numbers 2, 3, ...
\* in turn. After a solve that returned true the board so holds 1 .. W*H.
C24_InStep ==
    /\ (pc = "enter" \/ Returned) =>
          /\ Len(path) >= 1
          /\ path[1] = <<startRow, startCol>>
          /\ InBounds(W, H, path)
          /\ Distinct(path)
          /\ LegalSteps(path)
          /\ BoardIsPath
    /\ pc = "enter" =>
          /\ Len(path) = Top.moveNumber - 1
          /\ path[Len(path)] = <<Top.row, Top.col>>
          /\ \A j \in 1 .. Len(stack) :
                /\ stack[j].moveNumber = j + 1
                /\ <<stack[j].row, stack[j].col>> = path[j]
    /\ (Returned /\ lastRet) => {board[p] : p \in DOMAIN board} = 1 .. W * H

C24_Witness ==
    /\ pc = "enter"
    /\ Top.moveNumber = 9
    /\ backtrackCount > 20
    /\ Len(path) = 8
    /\ board[path[8]] = 8

\* The moves backtrack has made in this solve and taken back since
Undone == placed - (Len(path) - 1)

\* During a solve on a valid start and after it the backtrack count is the
\* number of moves made and taken back
C25_CountsUndone ==
    (Solving \/ Returned) => (backtrackCount >= 0 /\ backtrackCount = Undone)

\* C25: solve on a valid start sets the backtrack count to 0; during the solve
\* the count never decreases and changes only by the 1 added when a move that
\* was made is taken back after its recursive call failed; skipping a
\* candidate for its dead end leaves it as it is; so at every moment, and at
\* the return, it is the number of moves made and taken back.
C25_BacktrackCount ==
    /\ []C25_CountsUndone
    /\ [][/\ (pc = "idle" /\ pc' = "enter") => (backtrackCount' = 0 /\ placed' = 0)
          /\ (Solving /\ backtrackCount' # backtrackCount) =>
                /\ backtrackCount' = backtrackCount + 1
                /\ pc = "return"
                /\ ~ret
                /\ path' = SubSeq(path, 1, Len(path) - 1)
                /\ board' = [board EXCEPT ![path[Len(path)]] = 0]
          /\ (Solving /\ Len(path') < Len(path)) => backtrackCount' = backtrackCount + 1
          /\ (pc = "probe" /\ pc' = "loop") =>
                (backtrackCount' = backtrackCount /\ placed' = placed)]_vars

C25_Witness ==
    /\ pc = "loop"
    /\ Top.i > 1
    /\ Len(Top.validMoves) > 1
    /\ LET skipped == Top.validMoves[Top.i - 1]
       IN  hasDeadEnd([board EXCEPT ![skipped] = Top.moveNumber], W, H, skipped)
    /\ backtrackCount > 0
    /\ placed > backtrackCount + 3
    /\ prev # Null
    /\ prev.backtrackCount > 0

\* While createsDeadEnd runs, the board differs from the one it was called on in
\* the cell of its candidate only, and path and backtrack count do not differ
C26_OnlyCandidate ==
    /\ pc = "probe" <=> probed # Null
    /\ pc = "probe" =>
          /\ probed.board[Candidate] = 0
          /\ board = [probed.board EXCEPT ![Candidate] = Top.moveNumber]
          /\ path = probed.path
          /\ backtrackCount = probed.backtrackCount

\* C26: the look-ahead leaves no trace. When it has reported a dead end, every
\* cell, the path and the backtrack count are as they were when it was called,
\* and the candidate is neither pushed nor recursed into; when it has not, the
\* move that follows is made on the board and the path as they were when it was
\* called.
C26_LookAheadFrame ==
    /\ []C26_OnlyCandidate
    /\ [][pc = "probe" =>
            IF hasDeadEnd(board, W, H, Candidate)
            THEN /\ pc' = "loop"
                 /\ board' = probed.board
                 /\ path' = probed.path
                 /\ backtrackCount' = probed.backtrackCount
                 /\ Len(stack') = Len(stack)
                 /\ placed' = placed
            ELSE /\ pc' = "enter"
                 /\ board' = [probed.board EXCEPT ![Candidate] = Top.moveNumber]
                 /\ path' = Append(probed.path, Candidate)
                 /\ backtrackCount' = probed.backtrackCount]_vars

C26_Witness ==
    /\ pc = "loop"
    /\ Len(Top.validMoves) > 1
    /\ Top.i = Len(Top.validMoves) + 1
    /\ LET skipped == Top.validMoves[Top.i - 1]
       IN  hasDeadEnd([board EXCEPT ![skipped] = Top.moveNumber], W, H, skipped)
    /\ Len(path) >= 6
    /\ BoardIsPath

\* The terminal check of the innermost activation succeeds
Terminal ==
    /\ pc = "enter"
    /\ isSolution(board, W, H, path, tourType, startRow, startCol, Top.moveNumber)

\* Success is on its way out of the recursion
Succeeding == pc = "return" /\ ret

\* C27: first-solution semantics. When the terminal check succeeds, backtrack
\* returns true; every enclosing activation then returns true in turn, its
\* remaining candidates untried, until solve returns true; and from the
\* terminal check on no cell, nor the path, nor the backtrack count changes.
C27_FirstSolution ==
    [][/\ Terminal =>
            /\ pc' = "return"
            /\ ret'
            /\ stack' = Pop
            /\ UNCHANGED <<board, path, backtrackCount, placed>>
       /\ Succeeding =>
            /\ UNCHANGED <<board, path, backtrackCount, placed, ret>>
            /\ IF stack # <<>>
               THEN pc' = "return" /\ stack' = Pop
               ELSE pc' = "idle" /\ lastOp' = "solve" /\ lastRet' = TRUE]_vars

C27_Witness ==
    /\ Succeeding
    /\ Len(stack) >= 3
    /\ Top.i < Len(Top.validMoves)
    /\ tourType = CLOSED
    /\ backtrackCount > 0

\* C28: after solve on a valid start has returned false every move of the
\* search is undone: the path is the start position alone, the start square
\* holds 1 and every other cell 0, and the backtrack count is the number of
\* moves the search made.
C28_FailureUndone ==
    (Returned /\ ~lastRet) =>
        /\ path = <<<<startRow, startCol>>>>
        /\ board = [p \in Cells(W, H) |-> IF p = <<startRow, startCol>> THEN 1 ELSE 0]
        /\ backtrackCount = placed
        /\ stack = <<>>

C28_Witness ==
    /\ Returned
    /\ ~lastRet
    /\ placed > 40
    /\ prev # Null
    /\ prev.result
    /\ Len(prev.path) = 12

\* validatePath was called on what the last solve on a valid start left
ValidatedAfterSolve ==
    /\ lastOp = "validatePath"
    /\ pre = Null
    /\ cur # Null
    /\ path = cur.path
    /\ tourType = cur.type

\* C29: after a solve on a valid start that returned false validatePath()
\* returns false, on every board, 1x1 included, and for either tour type; so
\* after any solve on a valid start validatePath() returns what solve returned.
C29_Original ==
    /\ (Returned /\ ~lastRet) => ~validatePath(W, H, path, tourType)
    /\ ValidatedAfterSolve => (lastRet <=> cur.result)

\* What solve(row, col, type) returns and leaves on a board and a solver that
\* have just been constructed
Fresh(row, col, type) == solve(newBoard(W, H), W, H, row, col, type)

\* C30: what solve on a valid start returns and leaves does not depend on what
\* the solver and the board held when it was called: after any earlier solve
\* calls, found, failed or refused, with or without a reset in between, the
\* result, the path, the backtrack count and the cells are those of the same
\* call on a freshly constructed board and solver.
C30_Independent ==
    Returned =>
        LET fresh == Fresh(startRow, startCol, tourType)
        IN  /\ lastRet = fresh.result
            /\ path = fresh.s.path
            /\ backtrackCount = fresh.s.backtrackCount
            /\ board = fresh.s.board

C30_Witness ==
    /\ Returned
    /\ calls = 2
    /\ ~sinceReset
    /\ prev # Null
    /\ ~prev.result
    /\ prev.backtrackCount > 40
    /\ prev.type # tourType
    /\ lastRet
    /\ Len(path) = 12

====
